---- MODULE Spec2Model ----
(***************************************************************************)
(* A model of the utxo nursery (utxonursery.go): the incubator, the        *)
(* confirmation reactors, IncubateOutputs and the startup replay, over a   *)
(* nursery store, a chain with a mempool, and the channel database.        *)
(*                                                                         *)
(* The nursery store (interface NurseryStore) is not part of               *)
(* utxonursery.go; its operations are modelled from their contracts in     *)
(* the specification (section 4.1).                                        *)
(***************************************************************************)
EXTENDS Integers, FiniteSets, Sequences, TLC

\* ------------------------------------------------------------------ bounds
\* The chain grows to this height.
MaxHeight == 4
\* Channels that can be force closed.
NumChans == 1
\* HTLC resolutions a force-close summary can carry.
MaxHtlcs == 1
\* Process crashes (each followed by a restart through Start).
MaxCrashes == 1
\* Depth of a chain reorganisation: the heights below the last epoch, that one
\* included, whose epoch can be delivered again.
MaxReorg == 1
\* Calls of a collaborator that fail (store, notifier, broadcaster, signer,
\* channel database).
MaxFaults == 1

\* ---------------------------------------------------- program configuration
\* NurseryConfig.ConfDepth
ConfDepth == 1
\* NurseryConfig.PruningDepth
PruningDepth == 1
\* ForceCloseSummary.SelfOutputMaturity, the CSV delay of every output of a
\* channel (makeKidOutput / makeBabyOutput are both given this value).
SelfOutputMaturity == 1
\* OutgoingHtlcResolution.Expiry, the CLTV expiry of an HTLC.
HtlcExpiry == 1
\* Heights are uint32 and their arithmetic wraps around.  The model checker's
\* integers end below 2^32, so the model's words wrap at 2^16: far above
\* every height of the model, as 2^32 is above every height of the chain.
Uint32 == 65536

Heights == 1..MaxHeight
\* Sweep transactions the sweep builder is asked for: at most one for each
\* height and one more for each call that fails after it.
MaxSweeps == MaxHeight + MaxFaults
Chans == 1..NumChans
\* Output <<c, 0>> is the commitment (to-self) output of channel c, output
\* <<c, i>> with i >= 1 the second-stage output of its i-th HTLC.
Outputs == Chans \X (0..MaxHtlcs)

OriginChanPoint(o) == o[1]
BlocksToMaturity(o) == SelfOutputMaturity
Expiry(o) == HtlcExpiry

\* lnwallet.WitnessType of an output, as makeKidOutput / makeBabyOutput are
\* called by IncubateOutputs.
WitnessType(o) == IF o[2] = 0 THEN "CommitmentTimeLock" ELSE "HtlcOfferedTimeout"

\* The witness types a stored output can decode to; the last one is any type
\* createSweepTx has no case for.
WitnessTypes == {"CommitmentTimeLock", "HtlcOfferedTimeout", "Unknown"}

\* A sweep transaction: its txid, the outputs it spends, the sequence number
\* of each input and the number of its outputs.  NoTx is nil.
NoTx == [id |-> 0, ins |-> {}, seq |-> <<>>, outs |-> 0]

VARIABLES
    \* --- the nursery store (persistent)
    crib,          \* babies in CRIB
    pscl,          \* kids in PSCL
    kndr,          \* kids in KNDR
    grad,          \* kids in GRAD
    confHeight,    \* output -> confirmation height recorded in the store (0 = none)
    witnessType,   \* output -> witness type its stored record decodes to
    chanIndex,     \* channels known to the store
    fstx,          \* height -> finalized kindergarten sweep txn (NoTx = none)
    finalized,     \* heights FinalizeKinder has succeeded for
    classDone,     \* heights TryFinalizeClass has succeeded for
    lfh,           \* last finalized height
    lph,           \* last purged height
    \* --- the channel database (persistent)
    closedChans,   \* channels marked fully closed
    \* --- the chain and the network
    tip,           \* best height
    commitConf,    \* channel -> height its commitment txn was mined at (0 = not yet)
    timeoutConf,   \* baby -> height its timeout txn was mined at
    sweepConf,     \* sweep txid -> height it was mined at
    mempool,       \* transactions accepted by the network, not necessarily mined
    \* --- the nursery process (volatile)
    phase,         \* "down", "replay", "running", "failed"; "idle": started, the
                   \* incubator gone with its epoch stream; "stopped": after Stop
    currentHeight, \* utxoNursery.currentHeight
    replayCur,     \* reloadClasses: curHeight
    replayBest,    \* reloadClasses: bestHeight
    lastEpoch,     \* height of the last block epoch the incubator took in order
    reactors,      \* the confirmation reactors (goroutines) waiting
    twins,         \* the reactors of which a second goroutine, spawned with the
                   \* same arguments, is waiting as well
    nextTxid,      \* the next sweep txid the wallet script generation yields
    crashes,       \* crashes so far
    faults,        \* failed collaborator calls so far
    \* --- history of the calls made to the collaborators
    incubated,     \* channels IncubateOutputs was called for
    everInc,       \* outputs handed to Store.Incubate
    everGrad,      \* outputs that have been in GRAD
    bcast,         \* <<height, txid>> of kindergarten sweeps passed to PublishTransaction
    markLog,       \* MarkChanFullyClosed calls, with the channel's outputs at call time
    purgeLog,      \* <<height purged, currentHeight>> of the PurgeHeight call of the
                   \* latest graduateClass, if it made one
    refinal,       \* heights at or below the last finalized one for which the
                   \* sweep builder or FinalizeKinder was called all the same
    \* --- the goroutines and what synchronises them
    pc,            \* task -> where it is in its code
    mu,            \* u.mu: the task holding it, or "free"
    quit,          \* u.quit: "open" or "closed"
    started,       \* u.started
    stopped,       \* u.stopped
    wg,            \* u.wg: the counter
    confReady,     \* reactor -> what its confChan.Confirmed holds
    epochReady,    \* what newBlockChan.Epochs holds
    todo,          \* task -> the store-mutating calls its present path still makes
    inCall         \* task -> the store-mutating call it is inside of, or "none"

storeVars == <<crib, pscl, kndr, grad, confHeight, witnessType, chanIndex, fstx,
               finalized, classDone, lfh, lph>>
chainVars == <<tip, commitConf, timeoutConf, sweepConf>>
procVars == <<phase, currentHeight, replayCur, replayBest, lastEpoch, reactors,
              twins, nextTxid, crashes, faults>>
histVars == <<incubated, everInc, everGrad, bcast, markLog, purgeLog, refinal>>
syncVars == <<pc, mu, quit, started, stopped, wg, confReady, epochReady, todo,
              inCall>>
nurseryVars == <<storeVars, closedChans, chainVars, mempool, procVars, histVars>>
vars == <<nurseryVars, syncVars>>

\* The part of the state that graduateClass, the reactors and IncubateOutputs
\* read and write, as one record: the operators below are the code's steps,
\* each taking the state before it and yielding the state after it.
State ==
    [crib |-> crib, pscl |-> pscl, kndr |-> kndr, grad |-> grad,
     confHeight |-> confHeight, witnessType |-> witnessType,
     chanIndex |-> chanIndex, fstx |-> fstx,
     finalized |-> finalized, classDone |-> classDone, lfh |-> lfh, lph |-> lph,
     closedChans |-> closedChans, mempool |-> mempool,
     currentHeight |-> currentHeight, reactors |-> reactors, twins |-> twins,
     nextTxid |-> nextTxid,
     everInc |-> everInc, everGrad |-> everGrad, bcast |-> bcast,
     markLog |-> markLog, purgeLog |-> purgeLog, refinal |-> refinal]

Apply(s) ==
    /\ crib' = s.crib /\ pscl' = s.pscl /\ kndr' = s.kndr /\ grad' = s.grad
    /\ confHeight' = s.confHeight /\ witnessType' = s.witnessType
    /\ chanIndex' = s.chanIndex /\ fstx' = s.fstx
    /\ finalized' = s.finalized /\ classDone' = s.classDone
    /\ lfh' = s.lfh /\ lph' = s.lph
    /\ closedChans' = s.closedChans /\ mempool' = s.mempool
    /\ currentHeight' = s.currentHeight /\ reactors' = s.reactors
    /\ twins' = s.twins
    /\ nextTxid' = s.nextTxid
    /\ everInc' = s.everInc /\ everGrad' = s.everGrad /\ bcast' = s.bcast
    /\ markLog' = s.markLog /\ purgeLog' = s.purgeLog /\ refinal' = s.refinal


\* ------------------------------------------------------------ nursery store
\* The operations of NurseryStore, from their contracts.  An operation that
\* can fail yields [err, s]: on an error the store is left as it was (every
\* operation is one transaction).

Known(s) == s.crib \cup s.pscl \cup s.kndr \cup s.grad

MaturityHeight(s, o) == s.confHeight[o] + BlocksToMaturity(o)

\* Incubate(comm_output?, htlc_outputs[]): zero or one kid into PSCL, the
\* babies into CRIB, all or nothing.
Incubate(s, kids, babies) ==
    [s EXCEPT !.pscl = @ \cup kids,
              !.crib = @ \cup babies,
              !.chanIndex = @ \cup {OriginChanPoint(o) : o \in kids \cup babies},
              !.everInc = @ \cup kids \cup babies]

FetchPreschools(s) == s.pscl

\* FetchClass(H): the finalized sweep of H, the KNDR kids maturing at H, the
\* CRIB babies expiring at H.
FetchClass(s, h) ==
    [finalTx |-> s.fstx[h],
     kgtn |-> {o \in s.kndr : MaturityHeight(s, o) = h},
     cribs |-> {o \in s.crib : Expiry(o) = h}]

Max(a, b) == IF a >= b THEN a ELSE b

\* FinalizeKinder(H, tx?): FSTx(H) := tx, LFH := max(LFH, H); a repeated call
\* for the same H is a no-op.
FinalizeKinder(s, h, tx) ==
    IF h \in s.finalized
    THEN s
    ELSE [s EXCEPT !.fstx = [x \in Heights |-> IF x = h THEN tx ELSE @[x]],
                   !.finalized = @ \cup {h},
                   !.lfh = Max(@, h)]

\* CribToKinder(baby): CRIB -> KNDR with the confirmation height set;
\* not-found when the baby is not in CRIB.
CribToKinder(s, baby, conf) ==
    IF baby \in s.crib
    THEN [err |-> FALSE,
          s |-> [s EXCEPT !.crib = @ \ {baby},
                          !.kndr = @ \cup {baby},
                          !.confHeight = [@ EXCEPT ![baby] = conf]]]
    ELSE [err |-> TRUE, s |-> s]

\* PreschoolToKinder(kid): PSCL -> KNDR; not-found when the kid is not in PSCL.
PreschoolToKinder(s, kid, conf) ==
    IF kid \in s.pscl
    THEN [err |-> FALSE,
          s |-> [s EXCEPT !.pscl = @ \ {kid},
                          !.kndr = @ \cup {kid},
                          !.confHeight = [@ EXCEPT ![kid] = conf]]]
    ELSE [err |-> TRUE, s |-> s]

\* GraduateKinder(H, kids): the kids from KNDR at H to GRAD, all or nothing.
GraduateKinder(s, h, kids) ==
    IF \A k \in kids : k \in s.kndr /\ MaturityHeight(s, k) = h
    THEN [err |-> FALSE,
          s |-> [s EXCEPT !.kndr = @ \ kids,
                          !.grad = @ \cup kids,
                          !.everGrad = @ \cup kids]]
    ELSE [err |-> TRUE, s |-> s]

\* TryFinalizeClass(H): the bookkeeping flag "class H has graduated".
TryFinalizeClass(s, h) == [s EXCEPT !.classDone = @ \cup {h}]

\* IsMatureChannel(cp): not-found for an unknown channel, else whether every
\* output recorded under cp is in GRAD.
IsMatureChannel(s, cp) ==
    IF cp \notin s.chanIndex
    THEN "notfound"
    ELSE IF \A o \in Known(s) : OriginChanPoint(o) = cp => o \in s.grad
         THEN "mature"
         ELSE "immature"

\* RemoveChannel(cp): erases the channel index of cp and the outputs under it.
RemoveChannel(s, cp) ==
    LET gone == {o \in Known(s) : OriginChanPoint(o) = cp}
    IN  [s EXCEPT !.chanIndex = @ \ {cp},
                  !.crib = @ \ gone, !.pscl = @ \ gone,
                  !.kndr = @ \ gone, !.grad = @ \ gone,
                  !.confHeight = [o \in Outputs |-> IF o \in gone THEN 0 ELSE @[o]]]

\* PurgeHeight(H): drops FSTx(H) and the GRAD entries at H, and records H as
\* the last purged height.
PurgeHeight(s, h) ==
    LET gone == {o \in s.grad : MaturityHeight(s, o) = h}
    IN  [s EXCEPT !.fstx = [x \in Heights |-> IF x = h THEN NoTx ELSE @[x]],
                  !.grad = @ \ gone,
                  !.confHeight = [o \in Outputs |-> IF o \in gone THEN 0 ELSE @[o]],
                  !.lph = h]

\* ------------------------------------------------------------ graduateClass
\* What the collaborators do in one call of graduateClass: "ok", or the one
\* step that fails ("crashAfterFinalize": the process dies between
\* FinalizeKinder and the broadcast).  A crib fault names the baby whose
\* broadcast it hits.
NoOut == <<0, 0>>
ClassFaults ==
    {"ok", "fetchErr", "sweepErr", "finalizeErr", "pubHard", "pubSoft", "regErr",
     "purgeErr", "crashAfterFinalize"}
CribFaults == {"cribPubHard", "cribPubSoft", "cribRegErr"}
Faults ==
    {[kind |-> k, at |-> NoOut] : k \in ClassFaults}
    \cup {[kind |-> k, at |-> b] : k \in CribFaults, b \in Outputs}
Ok == [kind |-> "ok", at |-> NoOut]

\* The order in which FetchClass returns the babies of a class.
Before(a, b) == a[1] < b[1] \/ (a[1] = b[1] /\ a[2] < b[2])

\* A reactor: the goroutine and what it was spawned with.
PromotionReactor(kid) == [k |-> "promotion", o |-> kid, h |-> 0, kids |-> {}, id |-> 0]
EnrollmentReactor(baby) == [k |-> "enrollment", o |-> baby, h |-> 0, kids |-> {}, id |-> 0]
GraduationReactor(classHeight, kgtnOutputs, txid) ==
    [k |-> "graduation", o |-> NoOut, h |-> classHeight, kids |-> kgtnOutputs, id |-> txid]

\* u.wg.Add(1); go u.waitFor...: one more goroutine, whether or not one with
\* the same arguments is waiting already (of three or more alike, two are
\* followed).
Go(s, r) ==
    [s EXCEPT !.reactors = @ \cup {r},
              !.twins = IF r \in s.reactors THEN @ \cup {r} ELSE @]

\* A reactor has received its confirmation: that goroutine waits no more.
Taken(s, r) ==
    IF r \in s.twins
    THEN [s EXCEPT !.twins = @ \ {r}]
    ELSE [s EXCEPT !.reactors = @ \ {r}]

\* A nursery for which every publish error is hard.
IsSoftPublishErrorNever(kind) == FALSE

\* strings.Contains(err.Error(), "TX rejected:"): the publish errors that are
\* passed over.
IsSoftPublishError(kind) == kind \in {"pubSoft", "cribPubSoft"}

\* The witness types createSweepTx knows the weight of.
Recognised(s, o) == s.witnessType[o] \in {"CommitmentTimeLock", "HtlcOfferedTimeout"}

\* createSweepTx / sweepCsvSpendableOutputsTxn: one input per kid of a known
\* witness type, one output to a fresh wallet script, hence a fresh txid.  A
\* transaction without inputs fails CheckTransactionSanity.
createSweepTx(s, kgtnOutputs, f) ==
    LET inputs == {o \in kgtnOutputs : Recognised(s, o)}
    IN  IF f.kind = "sweepErr" \/ inputs = {}
        THEN [err |-> TRUE, tx |-> NoTx, s |-> s]
        ELSE [err |-> FALSE,
              tx |-> [id |-> s.nextTxid, ins |-> inputs,
                      seq |-> [o \in inputs |-> BlocksToMaturity(o)], outs |-> 1],
              s |-> [s EXCEPT !.nextTxid = @ + 1]]

\* graduateClass that finalizes whatever the last finalized height is.
ShouldFinalizeAlways(classHeight, lastFinalizedHeight) == TRUE

\* graduateClass with the comparison off by one.
ShouldFinalizeAtOrAbove(classHeight, lastFinalizedHeight) ==
    classHeight >= lastFinalizedHeight

\* graduateClass finalizing every height other than the last finalized one.
ShouldFinalizeIfDifferent(classHeight, lastFinalizedHeight) ==
    classHeight # lastFinalizedHeight

\* if classHeight > lastFinalizedHeight
ShouldFinalize(classHeight, lastFinalizedHeight) == classHeight > lastFinalizedHeight

\* The finalizing block without the return after a failed FinalizeKinder.
FinalizeStepNoReturn(s, classHeight, cls, f) ==
    LET built == IF cls.kgtn # {}
                 THEN createSweepTx(s, cls.kgtn, f)
                 ELSE [err |-> FALSE, tx |-> cls.finalTx, s |-> s]
    IN  IF classHeight <= s.lfh
        THEN [err |-> FALSE, hit |-> FALSE, finalTx |-> cls.finalTx, s |-> s]
        ELSE IF built.err
        THEN [err |-> TRUE, hit |-> f.kind = "sweepErr", finalTx |-> NoTx, s |-> built.s]
        ELSE IF f.kind = "finalizeErr"
        THEN [err |-> FALSE, hit |-> TRUE, finalTx |-> built.tx, s |-> built.s]
        ELSE [err |-> FALSE, hit |-> FALSE, finalTx |-> built.tx,
              s |-> FinalizeKinder(built.s, classHeight, built.tx)]

\* The finalizing block of graduateClass: builds the sweep when there are
\* kindergarten outputs and persists it.  Yields the finalTx to broadcast.
FinalizeStep(s, classHeight, cls, f) ==
    IF ~ShouldFinalize(classHeight, s.lfh)
    THEN [err |-> FALSE, hit |-> FALSE, finalTx |-> cls.finalTx, s |-> s]
    ELSE
      LET again == IF classHeight <= s.lfh THEN {classHeight} ELSE {}
          built == IF cls.kgtn # {}
                   THEN createSweepTx(s, cls.kgtn, f)
                   ELSE [err |-> FALSE, tx |-> cls.finalTx, s |-> s]
          s1 == [built.s EXCEPT !.refinal = @ \cup again]
      IN  IF built.err
          THEN [err |-> TRUE, hit |-> f.kind = "sweepErr", finalTx |-> NoTx, s |-> s1]
          ELSE IF f.kind = "finalizeErr"
          THEN [err |-> TRUE, hit |-> TRUE, finalTx |-> built.tx, s |-> s1]
          ELSE [err |-> FALSE, hit |-> FALSE, finalTx |-> built.tx,
                s |-> FinalizeKinder(s1, classHeight, built.tx)]

\* sweepGraduatingKinders: broadcast, register for the confirmation, spawn
\* waitForGraduation.
sweepGraduatingKinders(s, classHeight, finalTx, kgtnOutputs, f) ==
    LET s1 == [s EXCEPT !.bcast = @ \cup {<<classHeight, finalTx.id>>}]
        s2 == IF f.kind = "pubSoft" THEN s1
              ELSE [s1 EXCEPT !.mempool.sweeps = @ \cup {finalTx.id}]
    IN  IF f.kind \in {"pubHard", "pubSoft"} /\ ~IsSoftPublishError(f.kind)
        THEN [err |-> TRUE, hit |-> TRUE, s |-> s1]
        ELSE IF f.kind = "regErr"
        THEN [err |-> TRUE, hit |-> TRUE, s |-> s2]
        ELSE [err |-> FALSE, hit |-> f.kind = "pubSoft",
              s |-> Go(s2, GraduationReactor(classHeight, kgtnOutputs, finalTx.id))]

\* sweepCribOutput: broadcast the presigned timeout txn, register, spawn
\* waitForEnrollment.
sweepCribOutput(s, classHeight, baby, f) ==
    LET mine == f.at = baby
        s2 == IF mine /\ f.kind \in {"cribPubHard", "cribPubSoft"} THEN s
              ELSE [s EXCEPT !.mempool.timeouts = @ \cup {baby}]
    IN  IF mine /\ f.kind \in {"cribPubHard", "cribPubSoft"} /\ ~IsSoftPublishError(f.kind)
        THEN [err |-> TRUE, hit |-> TRUE, s |-> s]
        ELSE IF mine /\ f.kind = "cribRegErr"
        THEN [err |-> TRUE, hit |-> TRUE, s |-> s2]
        ELSE [err |-> FALSE, hit |-> mine /\ f.kind = "cribPubSoft",
              s |-> Go(s2, EnrollmentReactor(baby))]

\* The loop over cribOutputs: the babies in order, stopping at the first error.
RECURSIVE SweepCribs(_, _, _, _)
SweepCribs(s, classHeight, babies, f) ==
    IF babies = {}
    THEN [err |-> FALSE, hit |-> FALSE, s |-> s]
    ELSE LET b == CHOOSE x \in babies : \A y \in babies \ {x} : Before(x, y)
             r == sweepCribOutput(s, classHeight, b, f)
         IN  IF r.err THEN r
             ELSE LET rest == SweepCribs(r.s, classHeight, babies \ {b}, f)
                  IN  [rest EXCEPT !.hit = @ \/ r.hit]

\* graduateClass without the reorg safety test.
CanPurgeAlways(classHeight) == TRUE

\* if u.cfg.PruningDepth >= classHeight { return nil }
CanPurge(classHeight) == ~(PruningDepth >= classHeight)

\* graduateClass purging the class height itself.
HeightToPurgeNoDepth(classHeight) == classHeight % Uint32

\* heightToPurge := classHeight - u.cfg.PruningDepth (uint32)
HeightToPurge(classHeight) == (classHeight - PruningDepth) % Uint32

\* The purge at the end of graduateClass.
PurgeStep(s, classHeight, f) ==
    IF ~CanPurge(classHeight)
    THEN [err |-> FALSE, hit |-> FALSE, s |-> s]
    ELSE LET s1 == [s EXCEPT !.purgeLog =
                        @ \cup {<<HeightToPurge(classHeight), s.currentHeight>>}]
         IN  IF f.kind = "purgeErr"
             THEN [err |-> TRUE, hit |-> TRUE, s |-> s1]
             ELSE [err |-> FALSE, hit |-> FALSE,
                   s |-> PurgeHeight(s1, HeightToPurge(classHeight))]

\* graduateClass(classHeight) under the collaborators' behaviour f: the state
\* after it, whether it returned an error, and whether f's fault was met.
graduateClass(s, classHeight, f) ==
    LET s0 == [s EXCEPT !.currentHeight = classHeight, !.purgeLog = {}]
        cls == FetchClass(s0, classHeight)
        fin == FinalizeStep(s0, classHeight, cls, f)
        swp == IF fin.finalTx # NoTx
               THEN sweepGraduatingKinders(fin.s, classHeight, fin.finalTx, cls.kgtn, f)
               ELSE [err |-> FALSE, hit |-> FALSE, s |-> fin.s]
        crb == SweepCribs(swp.s, classHeight, cls.cribs, f)
        prg == PurgeStep(crb.s, classHeight, f)
    IN  IF f.kind = "fetchErr" THEN [err |-> TRUE, hit |-> TRUE, s |-> s0]
        ELSE IF fin.err THEN [err |-> TRUE, hit |-> fin.hit, s |-> fin.s]
        ELSE IF f.kind = "crashAfterFinalize"
        THEN [err |-> TRUE, hit |-> ShouldFinalize(classHeight, s.lfh), s |-> fin.s]
        ELSE IF swp.err THEN [err |-> TRUE, hit |-> fin.hit \/ swp.hit, s |-> swp.s]
        ELSE IF crb.err
        THEN [err |-> TRUE, hit |-> fin.hit \/ swp.hit \/ crb.hit, s |-> crb.s]
        ELSE [err |-> prg.err, hit |-> fin.hit \/ swp.hit \/ crb.hit \/ prg.hit,
              s |-> prg.s]

\* ------------------------------------------------- closeAndRemoveIfMature
\* What the collaborators do in one run of a reactor, of IncubateOutputs or
\* of Start: "ok", or the one call that fails, for a channel where it matters.
CloseFaults == {"matureErr", "markErr", "removeErr"}
CallFaults ==
    {[kind |-> k, cp |-> 0] : k \in {"ok", "storeErr", "regErr", "tfcErr", "startErr"}}
    \cup {[kind |-> k, cp |-> c] : k \in CloseFaults, c \in Chans}
CallOk == [kind |-> "ok", cp |-> 0]

\* closeAndRemoveIfMature with the maturity test inverted.
ShouldCloseUnlessMature(isMature) == isMature # "mature"

\* closeAndRemoveIfMature closing every channel the store knows.
ShouldCloseAlways(isMature) == TRUE

\* if !isMature { return nil }
ShouldClose(isMature) == isMature = "mature"

\* The MarkChanFullyClosed call as it is logged: the channel, and where the
\* outputs incubated under it are at call time.
MarkCall(s, cp) ==
    LET mine == {o \in s.everInc : OriginChanPoint(o) = cp}
    IN  [cp |-> cp,
         inGrad |-> mine \cap s.grad,
         immature |-> mine \cap (s.crib \cup s.pscl \cup s.kndr),
         gone |-> mine \ Known(s)]

\* closeAndRemoveIfMature going on to RemoveChannel after a failed
\* MarkChanFullyClosed.
ReturnOnMarkErrorNever(markFailed) == FALSE

\* err = u.cfg.DB.MarkChanFullyClosed(chanPoint); if err != nil { return err }
ReturnOnMarkError(markFailed) == markFailed

closeAndRemoveIfMature(s, chanPoint, f) ==
    LET mine == f.cp = chanPoint
        isMature == IsMatureChannel(s, chanPoint)
        markFailed == mine /\ f.kind = "markErr"
        s1 == [s EXCEPT !.markLog = @ \cup {MarkCall(s, chanPoint)}]
        s2 == IF markFailed THEN s1
              ELSE [s1 EXCEPT !.closedChans = @ \cup {chanPoint}]
    IN  IF isMature = "notfound" THEN [err |-> FALSE, hit |-> FALSE, s |-> s]
        ELSE IF mine /\ f.kind = "matureErr" THEN [err |-> TRUE, hit |-> TRUE, s |-> s]
        ELSE IF ~ShouldClose(isMature) THEN [err |-> FALSE, hit |-> FALSE, s |-> s]
        ELSE IF ReturnOnMarkError(markFailed) THEN [err |-> TRUE, hit |-> TRUE, s |-> s1]
        ELSE IF mine /\ f.kind = "removeErr" THEN [err |-> TRUE, hit |-> TRUE, s |-> s2]
        ELSE [err |-> FALSE, hit |-> markFailed, s |-> RemoveChannel(s2, chanPoint)]

\* closeAndRemoveIfMature for each channel of a set, lowest first (asc) or
\* highest first, stopping at the first error.
RECURSIVE CloseEach(_, _, _, _)
CloseEach(s, chanPoints, asc, f) ==
    IF chanPoints = {}
    THEN [err |-> FALSE, hit |-> FALSE, s |-> s]
    ELSE LET c == CHOOSE x \in chanPoints :
                     \A y \in chanPoints : IF asc THEN x <= y ELSE x >= y
             r == closeAndRemoveIfMature(s, c, f)
         IN  IF r.err THEN r
             ELSE LET rest == CloseEach(r.s, chanPoints \ {c}, asc, f)
                  IN  [rest EXCEPT !.hit = @ \/ r.hit]

\* A call under the collaborators' behaviour f: f is "ok", or its fault is met
\* (hit) and counted.
Faulty(f, hit) ==
    IF f.kind \in {"ok", "crashAfterFinalize"}
    THEN faults' = faults
    ELSE hit /\ faults < MaxFaults /\ faults' = faults + 1

\* ---------------------------------------------------------------- reactors
\* The process is up: Start has at least begun, and has not failed.
Alive == phase \in {"replay", "running", "idle"}

\* A reactor that does not wait for its confirmation.
ConfirmedAlways(h) == TRUE

\* The notifier delivers the confirmation of a txn mined at height h.
Confirmed(h) == h # 0 /\ tip >= h + ConfDepth - 1

\* The body of waitForPromotion after the confirmation was received.
PromotionBody(s, r, conf, f) ==
    LET moved == PreschoolToKinder(s, r.o, conf)
    IN  IF f.kind = "storeErr" THEN [hit |-> TRUE, s |-> s]
        ELSE [hit |-> FALSE, s |-> moved.s]

\* waitForPromotion
waitForPromotion(r, f) ==
    /\ Alive
    /\ r \in reactors /\ r.k = "promotion"
    /\ Confirmed(commitConf[OriginChanPoint(r.o)])
    /\ LET res == PromotionBody(Taken(State, r), r,
                                commitConf[OriginChanPoint(r.o)], f)
       IN  /\ Faulty(f, res.hit)
           /\ Apply(res.s)
    /\ UNCHANGED <<chainVars, phase, replayCur, replayBest, lastEpoch, crashes,
                   incubated, syncVars>>

\* The body of waitForEnrollment after the confirmation was received.
EnrollmentBody(s, r, conf, f) ==
    LET moved == CribToKinder(s, r.o, conf)
    IN  IF f.kind = "storeErr" THEN [hit |-> TRUE, s |-> s]
        ELSE [hit |-> FALSE, s |-> moved.s]

\* waitForEnrollment
waitForEnrollment(r, f) ==
    /\ Alive
    /\ r \in reactors /\ r.k = "enrollment"
    /\ Confirmed(timeoutConf[r.o])
    /\ LET res == EnrollmentBody(Taken(State, r), r,
                                 timeoutConf[r.o], f)
       IN  /\ Faulty(f, res.hit)
           /\ Apply(res.s)
    /\ UNCHANGED <<chainVars, phase, replayCur, replayBest, lastEpoch, crashes,
                   incubated, syncVars>>

\* The body of waitForGraduation after the confirmation was received.
GraduationBody(s, r, asc, f) ==
    LET moved == GraduateKinder(s, r.h, r.kids)
        possibleCloses == {OriginChanPoint(kid) : kid \in r.kids}
        closed == CloseEach(moved.s, possibleCloses, asc, f)
    IN  IF f.kind = "storeErr" THEN [hit |-> TRUE, s |-> s]
        ELSE IF moved.err THEN [hit |-> FALSE, s |-> s]
        ELSE IF closed.err THEN [hit |-> closed.hit, s |-> closed.s]
        ELSE IF f.kind = "tfcErr" THEN [hit |-> TRUE, s |-> closed.s]
        ELSE [hit |-> closed.hit, s |-> TryFinalizeClass(closed.s, r.h)]

\* waitForGraduation
waitForGraduation(r, asc, f) ==
    /\ Alive
    /\ r \in reactors /\ r.k = "graduation"
    /\ Confirmed(sweepConf[r.id])
    /\ LET res == GraduationBody(Taken(State, r), r, asc, f)
       IN  /\ Faulty(f, res.hit)
           /\ Apply(res.s)
    /\ UNCHANGED <<chainVars, phase, replayCur, replayBest, lastEpoch, crashes,
                   incubated, syncVars>>

\* The confirmation a reactor waits for has been delivered.
Delivered(r) ==
    Confirmed(IF r.k = "promotion" THEN commitConf[OriginChanPoint(r.o)]
              ELSE IF r.k = "enrollment" THEN timeoutConf[r.o]
              ELSE sweepConf[r.id])

\* The store a reactor leaves when it takes its confirmation in s and no
\* collaborator fails; the mutex makes the whole body one step.
ReactorBody(s, r) ==
    LET s0 == Taken(s, r)
    IN  IF r.k = "promotion"
        THEN PromotionBody(s0, r, commitConf[OriginChanPoint(r.o)], CallOk).s
        ELSE IF r.k = "enrollment"
        THEN EnrollmentBody(s0, r, timeoutConf[r.o], CallOk).s
        ELSE GraduationBody(s0, r, TRUE, CallOk).s

\* Everything the nursery store holds.
StoreOf(s) ==
    [crib |-> s.crib, pscl |-> s.pscl, kndr |-> s.kndr, grad |-> s.grad,
     confHeight |-> s.confHeight, witnessType |-> s.witnessType,
     chanIndex |-> s.chanIndex, fstx |-> s.fstx, finalized |-> s.finalized,
     classDone |-> s.classDone, lfh |-> s.lfh, lph |-> s.lph]

\* ---------------------------------------------------------- IncubateOutputs
\* The force-close summaries: the channel, whether the to-self sign
\* descriptor is there, the to-self amount and the HTLC amounts.
Summaries ==
    [chanPoint : Chans, selfDesc : BOOLEAN, selfAmt : 0..1,
     htlcAmts : [1..MaxHtlcs -> 0..1]]

\* commOutput built whenever the sign descriptor is there, whatever its value.
CommOutputIgnoringAmount(sum) ==
    IF sum.selfDesc THEN {<<sum.chanPoint, 0>>} ELSE {}

\* commOutput: the kid built from the to-self output, unless it is absent or
\* worth nothing.
CommOutput(sum) ==
    IF sum.selfDesc /\ sum.selfAmt > 0 THEN {<<sum.chanPoint, 0>>} ELSE {}

\* htlcOutputs built on the outpoint of the to-self output.
HtlcOutputsAtSelfOutPoint(sum) ==
    {<<sum.chanPoint, 0>> : i \in {j \in 1..MaxHtlcs : sum.htlcAmts[j] > 0}}

\* htlcOutputs: a baby for each HTLC resolution worth something.
HtlcOutputs(sum) ==
    {<<sum.chanPoint, i>> : i \in {j \in 1..MaxHtlcs : sum.htlcAmts[j] > 0}}

IncubateBody(s, sum, f) ==
    LET commOutput == CommOutput(sum)
        htlcOutputs == HtlcOutputs(sum)
        s1 == [s EXCEPT !.markLog = @ \cup {MarkCall(s, sum.chanPoint)}]
        s2 == Incubate(s, commOutput, htlcOutputs)
    IN  IF commOutput = {} /\ htlcOutputs = {}
        THEN IF f.kind = "markErr" /\ f.cp = sum.chanPoint
             THEN [hit |-> TRUE, s |-> s1]
             ELSE [hit |-> FALSE, s |-> [s1 EXCEPT !.closedChans = @ \cup {sum.chanPoint}]]
        ELSE IF f.kind = "storeErr" THEN [hit |-> TRUE, s |-> s]
        ELSE IF commOutput = {} THEN [hit |-> FALSE, s |-> s2]
        ELSE IF f.kind = "regErr" THEN [hit |-> TRUE, s |-> s2]
        ELSE [hit |-> FALSE,
              s |-> IF \E kid \in commOutput : TRUE
                    THEN Go(s2, PromotionReactor(CHOOSE kid \in commOutput : TRUE))
                    ELSE s2]

\* IncubateOutputs, called once for a force-closed channel.
IncubateOutputs(sum, f) ==
    /\ phase = "running"
    /\ sum.chanPoint \notin incubated
    /\ incubated' = incubated \cup {sum.chanPoint}
    /\ LET res == IncubateBody(State, sum, f)
       IN  /\ Faulty(f, res.hit)
           /\ Apply(res.s)
    /\ UNCHANGED <<chainVars, phase, replayCur, replayBest, lastEpoch, crashes,
                   syncVars>>

\* ----------------------------------------------------------- NurseryReport
\* var report *contractMaturityReport: no report.
NoReport ==
    [chanPoint |-> 0, confirmationHeight |-> 0, maturityRequirement |-> 0,
     maturityHeight |-> 0]

\* ForChanOutputs(cp, visit): not-found for a channel the store does not
\* know, else the outputs under cp, each tagged with the prefix of its bucket.
ForChanOutputs(s, cp) ==
    IF cp \notin s.chanIndex
    THEN [err |-> TRUE, outputs |-> {}]
    ELSE LET under(bucket) == {o \in bucket : OriginChanPoint(o) = cp}
         IN  [err |-> FALSE,
              outputs |-> {[prefix |-> "crib", o |-> o] : o \in under(s.crib)}
                          \cup {[prefix |-> "pscl", o |-> o] : o \in under(s.pscl)}
                          \cup {[prefix |-> "kndr", o |-> o] : o \in under(s.kndr)}
                          \cup {[prefix |-> "grad", o |-> o] : o \in under(s.grad)}]

\* The order of the visit: by key, the prefix first, then the outpoint.
KeyBefore(a, b) ==
    LET rank == [p \in {"crib", "grad", "kndr", "pscl"} |->
                    CASE p = "crib" -> 1 [] p = "grad" -> 2 [] p = "kndr" -> 3
                      [] p = "pscl" -> 4]
    IN  rank[a.prefix] < rank[b.prefix]
        \/ (a.prefix = b.prefix /\ Before(a.o, b.o))

\* The report the callback builds from one pscl or kndr entry.
ReportOf(s, cp, kid) ==
    [chanPoint |-> cp,
     confirmationHeight |-> s.confHeight[kid],
     maturityRequirement |-> BlocksToMaturity(kid),
     maturityHeight |-> IF s.confHeight[kid] # 0
                        THEN (BlocksToMaturity(kid) + s.confHeight[kid]) % Uint32
                        ELSE 0]

\* NurseryReport: the visit overwrites the report at each pscl or kndr entry
\* and passes over crib and grad entries; return report, nil.
NurseryReport(s, cp) ==
    LET all == ForChanOutputs(s, cp)
        kids == {e \in all.outputs : e.prefix \in {"pscl", "kndr"}}
        last == CHOOSE e \in kids : \A y \in kids \ {e} : KeyBefore(y, e)
    IN  IF all.err THEN [err |-> TRUE, report |-> NoReport]
        ELSE IF kids = {} THEN [err |-> FALSE, report |-> NoReport]
        ELSE [err |-> FALSE, report |-> ReportOf(s, cp, last.o)]

\* ------------------------------------------------------------------- Start
\* What a crash, or close(u.quit) in a failing Start, leaves of the process.
Halted(s) == [s EXCEPT !.reactors = {}, !.twins = {}, !.currentHeight = 0]

\* reloadPreschool: a waitForPromotion for every PSCL output.
reloadPreschool(s) ==
    LET spawned == {PromotionReactor(kid) : kid \in FetchPreschools(s)}
    IN  [s EXCEPT !.reactors = @ \cup spawned,
                  !.twins = @ \cup (spawned \cap s.reactors)]

\* reloadClasses replaying whatever the last purged height is.
SkipReplayNever(lastPrunedHeight, bestHeight) == FALSE

\* reloadClasses: if lastPrunedHeight == 0 || uint32(bestHeight) == lastPrunedHeight
SkipReplay(lastPrunedHeight, bestHeight) ==
    lastPrunedHeight = 0 \/ bestHeight = lastPrunedHeight

\* graduateClass for the heights from..to in ascending order, the
\* collaborators not failing; stopOnErr: the loop of reloadClasses, which
\* returns the first error; otherwise the incubator, which logs it and goes on.
RECURSIVE GraduateRange(_, _, _, _)
GraduateRange(s, from, to, stopOnErr) ==
    IF from > to
    THEN [err |-> FALSE, s |-> s]
    ELSE LET r == graduateClass(s, from, Ok)
         IN  IF r.err /\ stopOnErr
             THEN [err |-> TRUE, s |-> r.s]
             ELSE GraduateRange(r.s, from + 1, to, stopOnErr)

\* reloadClasses(lastPrunedHeight) with bestHeight the answer of GetBestBlock.
reloadClasses(s, lastPrunedHeight, bestHeight) ==
    IF SkipReplay(lastPrunedHeight, bestHeight)
    THEN [err |-> FALSE, s |-> s]
    ELSE GraduateRange(s, lastPrunedHeight + 1, bestHeight, TRUE)

\* The store a restart at best height bestHeight leaves: Start on the state a
\* shutdown leaves of s, up to the registration for block epochs.
StoreAfterRestart(s, bestHeight) ==
    LET closed == CloseEach(Halted(s), Chans \ s.closedChans, TRUE, CallOk)
        up == reloadPreschool(closed.s)
    IN  reloadClasses(up, up.lph, bestHeight).s

\* The store the running incubator leaves once it has taken the epochs of the
\* heights above the last one it took, up to bestHeight.
StoreAfterEpochs(s, lastHeight, bestHeight) ==
    GraduateRange(s, lastHeight + 1, bestHeight, FALSE).s

\* What the store holds of the outputs and of their sweeps.
StoreContents(s) ==
    [crib |-> s.crib, pscl |-> s.pscl, kndr |-> s.kndr, grad |-> s.grad,
     confHeight |-> s.confHeight, chanIndex |-> s.chanIndex, fstx |-> s.fstx]

\* Start up to the replay loop of reloadClasses: the pending-close channels are
\* flushed, the preschool reactors restarted, and either the replay begins or
\* (nothing to replay) the incubator is subscribed at the tip.
Start(f) ==
    /\ phase = "down"
    /\ LET closed == CloseEach(State, Chans \ closedChans, TRUE, f)
           failing == closed.err \/ f.kind \in {"startErr", "regErr"}
           up == reloadPreschool(closed.s)
       IN  /\ Faulty(f, closed.hit \/ f.kind \in {"startErr", "regErr"})
           /\ IF failing
              THEN /\ Apply(closed.s)
                   /\ phase' = "failed"
                   /\ UNCHANGED <<replayCur, replayBest, lastEpoch>>
              ELSE /\ Apply(up)
                   /\ IF SkipReplay(lph, tip)
                      THEN /\ phase' = "running"
                           /\ lastEpoch' = tip
                           /\ UNCHANGED <<replayCur, replayBest>>
                      ELSE /\ phase' = "replay"
                           /\ replayCur' = lph + 1
                           /\ replayBest' = tip
                           /\ UNCHANGED lastEpoch
    /\ UNCHANGED <<chainVars, crashes, incubated, syncVars>>

\* One round of the loop of reloadClasses; after the last one Start registers
\* for block epochs and spawns the incubator.  An error closes u.quit.
ReplayStep(f) ==
    /\ phase = "replay"
    /\ replayCur <= replayBest
    /\ LET res == graduateClass(State, replayCur, f)
       IN  /\ Faulty(f, res.hit)
           /\ f.kind = "crashAfterFinalize" => res.hit
           /\ res.s.nextTxid <= MaxSweeps + 1
           /\ IF f.kind = "crashAfterFinalize"
              THEN /\ crashes < MaxCrashes
                   /\ Apply(Halted(res.s))
                   /\ phase' = "down"
                   /\ crashes' = crashes + 1
                   /\ replayCur' = 0 /\ replayBest' = 0
                   /\ UNCHANGED lastEpoch
              ELSE IF res.err
              THEN /\ Apply(Halted(res.s))
                   /\ phase' = "failed"
                   /\ replayCur' = 0 /\ replayBest' = 0
                   /\ UNCHANGED <<lastEpoch, crashes>>
              ELSE IF replayCur = replayBest
              THEN /\ Apply(res.s)
                   /\ phase' = "running"
                   /\ lastEpoch' = tip
                   /\ replayCur' = 0 /\ replayBest' = 0
                   /\ UNCHANGED crashes
              ELSE /\ Apply(res.s)
                   /\ replayCur' = replayCur + 1
                   /\ UNCHANGED <<phase, replayBest, lastEpoch, crashes>>
    /\ UNCHANGED <<chainVars, incubated, syncVars>>

\* --------------------------------------------------------------- incubator
\* An incubator that returns when graduateClass fails.
AfterEpochReturnOnError(err) == IF err THEN "idle" ELSE "running"

\* if err != nil { utxnLog.Errorf(...) }: the loop goes on to the next select.
AfterEpoch(err) == "running"

\* The incubator takes an epoch of height h: graduateClass(h) under the mutex;
\* an error is logged and the loop goes on.
Epoch(h, f) ==
    LET res == graduateClass(State, h, f)
    IN  /\ Faulty(f, res.hit)
        /\ f.kind = "crashAfterFinalize" => res.hit
        /\ res.s.nextTxid <= MaxSweeps + 1
        /\ IF f.kind = "crashAfterFinalize"
           THEN /\ crashes < MaxCrashes
                /\ Apply(Halted(res.s))
                /\ phase' = "down"
                /\ crashes' = crashes + 1
                /\ lastEpoch' = 0
           ELSE /\ Apply(res.s)
                /\ lastEpoch' = Max(lastEpoch, h)
                /\ phase' = AfterEpoch(res.err)
                /\ UNCHANGED crashes
        /\ UNCHANGED <<chainVars, replayCur, replayBest, incubated, syncVars>>

\* The epoch of the next block.
incubator(f) ==
    /\ phase = "running"
    /\ lastEpoch < tip
    /\ Epoch(lastEpoch + 1, f)

\* A reorganisation delivers the epoch of a height once more.
RepeatedEpoch(h, f) ==
    /\ phase = "running"
    /\ h <= lastEpoch /\ h > lastEpoch - MaxReorg
    /\ Epoch(h, f)

\* ------------------------------------------------------------------- chain
\* A block is connected; it mines some of the transactions the network has:
\* commitment txns of force-closed channels, timeout txns whose commitment is
\* mined, sweeps.
NewBlock(commits, timeouts, sweeps) ==
    /\ tip < MaxHeight
    /\ commits \subseteq {c \in incubated : commitConf[c] = 0}
    /\ timeouts \subseteq {b \in mempool.timeouts :
                             timeoutConf[b] = 0 /\ commitConf[OriginChanPoint(b)] # 0}
    /\ sweeps \subseteq {i \in mempool.sweeps : sweepConf[i] = 0}
    /\ tip' = tip + 1
    /\ commitConf' = [c \in Chans |-> IF c \in commits THEN tip + 1 ELSE commitConf[c]]
    /\ timeoutConf' = [b \in Outputs |-> IF b \in timeouts THEN tip + 1 ELSE timeoutConf[b]]
    /\ sweepConf' = [i \in 1..MaxSweeps |-> IF i \in sweeps THEN tip + 1 ELSE sweepConf[i]]
    /\ UNCHANGED <<storeVars, closedChans, mempool, procVars, histVars, syncVars>>

\* The notifier closes the epoch stream (case epoch, ok := <-Epochs; !ok): the
\* incubator returns; the reactors go on.
EpochsClosed ==
    /\ phase = "running"
    /\ phase' = "idle"
    /\ UNCHANGED <<storeVars, closedChans, chainVars, mempool, currentHeight,
                   replayCur, replayBest, lastEpoch, reactors, twins, nextTxid,
                   crashes, faults, histVars, syncVars>>

\* Stop: close(u.quit) and wg.Wait(): the incubator and the waiting reactors
\* return.
Stop ==
    /\ phase \in {"running", "idle"}
    /\ phase' = "stopped"
    /\ reactors' = {}
    /\ twins' = {}
    /\ UNCHANGED <<storeVars, closedChans, chainVars, mempool, currentHeight,
                   replayCur, replayBest, lastEpoch, nextTxid, crashes, faults,
                   histVars, syncVars>>

\* The process dies; the store, the channel database and the chain stay.
Crash ==
    /\ phase # "down"
    /\ crashes < MaxCrashes
    /\ phase' = "down"
    /\ reactors' = {}
    /\ twins' = {}
    /\ currentHeight' = 0
    /\ replayCur' = 0 /\ replayBest' = 0
    /\ lastEpoch' = 0
    /\ crashes' = crashes + 1
    /\ UNCHANGED <<storeVars, closedChans, chainVars, mempool, nextTxid, faults, histVars,
                   syncVars>>

\* ------------------------------------------------------------ specification
\* The goroutines of one nursery and its callers: the caller of Start, one
\* caller of IncubateOutputs, two callers of Stop, the incubator and one
\* reactor of each kind.
Reactors == {"enrollment", "promotion", "graduation"}
StopCallers == {"stop1", "stop2"}
Spawned == {"incubator"} \cup Reactors
Tasks == {"start", "ingress"} \cup StopCallers \cup Spawned

\* NewUtxoNursery: quit: make(chan struct{}); no goroutine runs.
SyncInit ==
    /\ pc = [t \in Tasks |-> IF t \in Spawned THEN "unborn" ELSE "idle"]
    /\ mu = "free"
    /\ quit = "open"
    /\ started = 0 /\ stopped = 0
    /\ wg = 0
    /\ confReady = [r \in Reactors |-> "none"]
    /\ epochReady = "none"
    /\ todo = [t \in Tasks |-> <<>>]
    /\ inCall = [t \in Tasks |-> "none"]

Init ==
    /\ crib = {} /\ pscl = {} /\ kndr = {} /\ grad = {}
    /\ confHeight = [o \in Outputs |-> 0]
    /\ witnessType = [o \in Outputs |-> WitnessType(o)]
    /\ chanIndex = {}
    /\ fstx = [h \in Heights |-> NoTx]
    /\ finalized = {} /\ classDone = {}
    /\ lfh = 0 /\ lph = 0
    /\ closedChans = {}
    /\ tip = 0
    /\ commitConf = [c \in Chans |-> 0]
    /\ timeoutConf = [b \in Outputs |-> 0]
    /\ sweepConf = [i \in 1..MaxSweeps |-> 0]
    /\ mempool = [sweeps |-> {}, timeouts |-> {}]
    /\ phase = "down"
    /\ currentHeight = 0
    /\ replayCur = 0 /\ replayBest = 0
    /\ lastEpoch = 0
    /\ reactors = {}
    /\ twins = {}
    /\ nextTxid = 1
    /\ crashes = 0
    /\ faults = 0
    /\ incubated = {} /\ everInc = {} /\ everGrad = {}
    /\ bcast = {} /\ markLog = {} /\ purgeLog = {} /\ refinal = {}
    /\ SyncInit

Next ==
    \/ \E f \in CallFaults : Start(f)
    \/ \E f \in Faults : ReplayStep(f)
    \/ \E f \in Faults : incubator(f)
    \/ \E h \in Heights, f \in Faults : RepeatedEpoch(h, f)
    \/ \E sum \in Summaries, f \in CallFaults : IncubateOutputs(sum, f)
    \/ \E r \in reactors, f \in CallFaults : waitForPromotion(r, f)
    \/ \E r \in reactors, f \in CallFaults : waitForEnrollment(r, f)
    \/ \E r \in reactors, asc \in BOOLEAN, f \in CallFaults : waitForGraduation(r, asc, f)
    \/ \E cs \in SUBSET Chans, ts \in SUBSET Outputs, ss \in SUBSET (1..MaxSweeps) :
          NewBlock(cs, ts, ss)
    \/ EpochsClosed
    \/ Stop
    \/ Crash

Spec == Init /\ [][Next]_vars

\* The nursery with collaborators that never fail, a process that never dies
\* and a chain that never reorganises.  It starts on an empty store, so Start
\* has no height to replay.
NextOk ==
    \/ Start(CallOk)
    \/ incubator(Ok)
    \/ \E sum \in Summaries : IncubateOutputs(sum, CallOk)
    \/ \E r \in reactors : waitForPromotion(r, CallOk)
    \/ \E r \in reactors : waitForEnrollment(r, CallOk)
    \/ \E r \in reactors, asc \in BOOLEAN : waitForGraduation(r, asc, CallOk)
    \/ \E cs \in SUBSET Chans, ts \in SUBSET Outputs, ss \in SUBSET (1..MaxSweeps) :
          NewBlock(cs, ts, ss)

SpecOk == Init /\ [][NextOk]_vars

\* The same nursery where nothing that can run is put off for ever: every
\* reactor gets its confirmation and the mutex, the chain goes on as far as the
\* model follows it, and the incubator gets every epoch.  The incubator takes
\* an epoch exactly when one is due (case epoch := <-newBlockChan.Epochs), so
\* its weak fairness is written out over that condition.
Reactor ==
    \/ \E r \in reactors : waitForPromotion(r, CallOk)
    \/ \E r \in reactors : waitForEnrollment(r, CallOk)
    \/ \E r \in reactors, asc \in BOOLEAN : waitForGraduation(r, asc, CallOk)

Chain ==
    \E cs \in SUBSET Chans, ts \in SUBSET Outputs, ss \in SUBSET (1..MaxSweeps) :
        NewBlock(cs, ts, ss)

EpochDue == phase = "running" /\ lastEpoch < tip

SpecOkFair ==
    /\ SpecOk
    /\ WF_vars(Reactor)
    /\ WF_vars(Chain)
    /\ ([]<>(~EpochDue) \/ []<><<EpochDue /\ lastEpoch' = lastEpoch + 1>>_vars)

\* The nursery that is started once and never restarted, on a chain that
\* never redelivers an epoch, with one failure of sweep construction or one
\* hard broadcast failure in some call of graduateClass.
RetryFaults ==
    {f \in Faults : f.kind \in {"ok", "sweepErr", "pubHard", "cribPubHard"}}

NextRetry ==
    \/ Start(CallOk)
    \/ \E f \in RetryFaults : incubator(f)
    \/ \E sum \in Summaries : IncubateOutputs(sum, CallOk)
    \/ \E r \in reactors : waitForPromotion(r, CallOk)
    \/ \E r \in reactors : waitForEnrollment(r, CallOk)
    \/ \E r \in reactors, asc \in BOOLEAN : waitForGraduation(r, asc, CallOk)
    \/ \E cs \in SUBSET Chans, ts \in SUBSET Outputs, ss \in SUBSET (1..MaxSweeps) :
          NewBlock(cs, ts, ss)

SpecRetry == Init /\ [][NextRetry]_vars

\* Scenario S6: the store holds two kids scheduled at the same height, with
\* witness types as read from disk, possibly one the sweep builder does not
\* know.  The state is the one the nursery is in at height 2 when the
\* commitment txn and the htlc timeout txn (broadcast by graduateClass(1)) were
\* both mined in block 2 and both confirmations were handled: the to-self kid
\* and the promoted baby are in KNDR and mature at height 3.
InitS6 ==
    /\ crib = {} /\ pscl = {} /\ grad = {}
    /\ kndr = {<<1, 0>>, <<1, 1>>}
    /\ confHeight = [o \in Outputs |-> IF o \in {<<1, 0>>, <<1, 1>>} THEN 2 ELSE 0]
    /\ witnessType \in [Outputs -> WitnessTypes]
    /\ chanIndex = {1}
    /\ fstx = [h \in Heights |-> NoTx]
    /\ finalized = {1, 2} /\ classDone = {}
    /\ lfh = 2 /\ lph = 1
    /\ closedChans = {}
    /\ tip = 2
    /\ commitConf = [c \in Chans |-> IF c = 1 THEN 2 ELSE 0]
    /\ timeoutConf = [b \in Outputs |-> IF b = <<1, 1>> THEN 2 ELSE 0]
    /\ sweepConf = [i \in 1..MaxSweeps |-> 0]
    /\ mempool = [sweeps |-> {}, timeouts |-> {<<1, 1>>}]
    /\ phase = "running"
    /\ currentHeight = 2
    /\ replayCur = 0 /\ replayBest = 0
    /\ lastEpoch = 2
    /\ reactors = {}
    /\ twins = {}
    /\ nextTxid = 1
    /\ crashes = 0
    /\ faults = 0
    /\ incubated = {1} /\ everInc = {<<1, 0>>, <<1, 1>>} /\ everGrad = {}
    /\ bcast = {} /\ markLog = {} /\ purgeLog = {<<1, 2>>} /\ refinal = {}
    /\ SyncInit

NextS6 ==
    \/ incubator(Ok)
    \/ \E h \in Heights : RepeatedEpoch(h, Ok)
    \/ \E r \in reactors, asc \in BOOLEAN : waitForGraduation(r, asc, CallOk)
    \/ \E cs \in SUBSET Chans, ts \in SUBSET Outputs, ss \in SUBSET (1..MaxSweeps) :
          NewBlock(cs, ts, ss)
    \/ Stop

SpecS6 == InitS6 /\ [][NextS6]_vars

\* ------------------------------------------------------------- goroutines
\* The nursery as the goroutines that run it: where each task takes and drops
\* u.mu, what it selects on, what it adds to and takes from u.wg, who closes
\* u.quit, and which store-mutating calls it makes in between.  What the
\* calls do to the store is the subject of the actions above; here a call is
\* entered and left, and each conditional of the code is a choice.
Panicked == \E t \in Tasks : pc[t] = "panic"

Quiet(t) == inCall[t] = "none"

\* graduateClass: FinalizeKinder if the height is not finalized yet,
\* PurgeHeight if there is a height to purge; an error returns early.
GraduatePaths ==
    {<<>>, <<"FinalizeKinder">>, <<"PurgeHeight">>, <<"FinalizeKinder", "PurgeHeight">>}

\* Start, step 1: closeAndRemoveIfMature of each pending-close channel calls
\* RemoveChannel for a mature one.
FlushPaths == {<<>>, <<"RemoveChannel">>}

\* The store-mutating calls a task makes between u.mu.Lock() and
\* u.mu.Unlock(), in order, for each path through its conditionals.
Paths(t) ==
    CASE t \in {"start", "incubator"} -> GraduatePaths
      [] t = "ingress" -> {<<>>, <<"Incubate">>}
      [] t = "enrollment" -> {<<"CribToKinder">>}
      [] t = "promotion" -> {<<"PreschoolToKinder">>}
      [] t = "graduation" ->
            {<<"GraduateKinder">>, <<"GraduateKinder", "RemoveChannel">>,
             <<"GraduateKinder", "TryFinalizeClass">>,
             <<"GraduateKinder", "RemoveChannel", "TryFinalizeClass">>}

\* The reactors a task starts while it holds the mutex: graduateClass starts
\* waitForGraduation and waitForEnrollment, IncubateOutputs waitForPromotion.
Spawns(t) ==
    CASE t \in {"start", "incubator"} -> {"graduation", "enrollment"}
      [] t = "ingress" -> {"promotion"}
      [] OTHER -> {}

\* Where a task goes when it has dropped the mutex: reloadClasses goes round
\* its loop, returns the error or ends; the incubator selects again; the
\* others return.
After(t) ==
    CASE t = "start" -> {"lock", "close", "register"}
      [] t = "incubator" -> {"select"}
      [] OTHER -> {"done"}

\* A mutex that is never given back.
UnlockForgotten(t) == t

\* u.mu.Unlock(), deferred or not.
Unlock(t) == "free"

\* defer u.wg.Done() of a goroutine that returns.
Done(t) == IF t \in Spawned THEN wg - 1 ELSE wg

\* Start up to the flush loop: the compare-and-swap of u.started, then
\* FetchClosedChannels, whose error is returned.
StartCall(fail) ==
    /\ ~Panicked
    /\ pc["start"] = "idle"
    /\ IF started = 1
       THEN /\ pc' = [pc EXCEPT !["start"] = "done"]
            /\ UNCHANGED <<started, todo>>
       ELSE /\ started' = 1
            /\ IF fail
               THEN /\ pc' = [pc EXCEPT !["start"] = "done"]
                    /\ UNCHANGED todo
               ELSE /\ pc' = [pc EXCEPT !["start"] = "flush"]
                    /\ \E p \in FlushPaths : todo' = [todo EXCEPT !["start"] = p]
    /\ UNCHANGED <<mu, quit, stopped, wg, confReady, epochReady, inCall, nurseryVars>>

\* Start after the flush loop: an error of closeAndRemoveIfMature or of
\* LastPurgedHeight is returned.
StartFlushed(fail) ==
    /\ ~Panicked
    /\ pc["start"] = "flush" /\ todo["start"] = <<>> /\ Quiet("start")
    /\ pc' = [pc EXCEPT !["start"] = IF fail THEN "done" ELSE "reloadPreschool"]
    /\ UNCHANGED <<mu, quit, started, stopped, wg, confReady, epochReady, todo,
                   inCall, nurseryVars>>

\* reloadPreschool: u.wg.Add(1); go u.waitForPromotion for a kid in PSCL; on
\* an error Start goes on to close(u.quit).
StartReloadPreschool(spawn, fail) ==
    /\ ~Panicked
    /\ pc["start"] = "reloadPreschool"
    /\ spawn => pc["promotion"] = "unborn"
    /\ pc' = [pc EXCEPT !["start"] = IF fail THEN "close" ELSE "reloadClasses",
                        !["promotion"] = IF spawn THEN "select" ELSE @]
    /\ wg' = IF spawn THEN wg + 1 ELSE wg
    /\ UNCHANGED <<mu, quit, started, stopped, confReady, epochReady, todo,
                   inCall, nurseryVars>>

\* reloadClasses before its loop: GetBestBlock fails, or there is nothing to
\* replay, or the loop is entered.
StartReloadClasses(way) ==
    /\ ~Panicked
    /\ pc["start"] = "reloadClasses"
    /\ pc' = [pc EXCEPT !["start"] = CASE way = "fail" -> "close"
                                       [] way = "skip" -> "register"
                                       [] way = "replay" -> "lock"]
    /\ UNCHANGED <<mu, quit, started, stopped, wg, confReady, epochReady, todo,
                   inCall, nurseryVars>>

\* Start, step 4: RegisterBlockEpochNtfn, then u.wg.Add(1); go u.incubator.
StartRegister(fail) ==
    /\ ~Panicked
    /\ pc["start"] = "register"
    /\ pc' = [pc EXCEPT !["start"] = IF fail THEN "close" ELSE "done",
                        !["incubator"] = IF fail THEN @ ELSE "select"]
    /\ wg' = IF fail THEN wg ELSE wg + 1
    /\ UNCHANGED <<mu, quit, started, stopped, confReady, epochReady, todo,
                   inCall, nurseryVars>>

\* close(u.quit), by a failing Start or by Stop; closing a closed channel
\* panics.
CloseQuit(t) ==
    /\ ~Panicked
    /\ pc[t] = "close"
    /\ IF quit = "open"
       THEN /\ quit' = "closed"
            /\ pc' = [pc EXCEPT ![t] = IF t = "start" THEN "done" ELSE "wait"]
       ELSE /\ pc' = [pc EXCEPT ![t] = "panic"]
            /\ UNCHANGED quit
    /\ UNCHANGED <<mu, started, stopped, wg, confReady, epochReady, todo, inCall,
                   nurseryVars>>

\* Stop: the compare-and-swap of u.stopped.
StopCall(t) ==
    /\ ~Panicked
    /\ t \in StopCallers /\ pc[t] = "idle"
    /\ IF stopped = 0
       THEN stopped' = 1 /\ pc' = [pc EXCEPT ![t] = "close"]
       ELSE pc' = [pc EXCEPT ![t] = "done"] /\ UNCHANGED stopped
    /\ UNCHANGED <<mu, quit, started, wg, confReady, epochReady, todo, inCall,
                   nurseryVars>>

\* Stop: u.wg.Wait() returns when the counter is zero.
StopWait(t) ==
    /\ ~Panicked
    /\ t \in StopCallers /\ pc[t] = "wait"
    /\ wg = 0
    /\ pc' = [pc EXCEPT ![t] = "done"]
    /\ UNCHANGED <<mu, quit, started, stopped, wg, confReady, epochReady, todo,
                   inCall, nurseryVars>>

\* IncubateOutputs is called: it goes for the mutex first.
IngressCall ==
    /\ ~Panicked
    /\ pc["ingress"] = "idle"
    /\ pc' = [pc EXCEPT !["ingress"] = "lock"]
    /\ UNCHANGED <<mu, quit, started, stopped, wg, confReady, epochReady, todo,
                   inCall, nurseryVars>>

\* u.mu.Lock()
Lock(t) ==
    /\ ~Panicked
    /\ pc[t] = "lock"
    /\ mu = "free"
    /\ mu' = t
    /\ pc' = [pc EXCEPT ![t] = "locked"]
    /\ \E p \in Paths(t) : todo' = [todo EXCEPT ![t] = p]
    /\ UNCHANGED <<quit, started, stopped, wg, confReady, epochReady, inCall,
                   nurseryVars>>

\* A task enters its next store-mutating call.
StoreCall(t) ==
    /\ ~Panicked
    /\ pc[t] \in {"locked", "flush"}
    /\ Quiet(t) /\ todo[t] # <<>>
    /\ inCall' = [inCall EXCEPT ![t] = Head(todo[t])]
    /\ todo' = [todo EXCEPT ![t] = Tail(@)]
    /\ UNCHANGED <<pc, mu, quit, started, stopped, wg, confReady, epochReady,
                   nurseryVars>>

\* The call returns.
StoreReturn(t) ==
    /\ ~Panicked
    /\ ~Quiet(t)
    /\ inCall' = [inCall EXCEPT ![t] = "none"]
    /\ UNCHANGED <<pc, mu, quit, started, stopped, wg, confReady, epochReady,
                   todo, nurseryVars>>

\* u.wg.Add(1); go u.waitFor...() inside graduateClass or IncubateOutputs.
Spawn(t, r) ==
    /\ ~Panicked
    /\ pc[t] = "locked" /\ Quiet(t)
    /\ r \in Spawns(t) /\ pc[r] = "unborn"
    /\ pc' = [pc EXCEPT ![r] = "select"]
    /\ wg' = wg + 1
    /\ UNCHANGED <<mu, quit, started, stopped, confReady, epochReady, todo,
                   inCall, nurseryVars>>

\* The task has made the calls of its path and drops the mutex; a goroutine
\* that returns takes itself off the counter.
Leave(t, next) ==
    /\ ~Panicked
    /\ pc[t] = "locked" /\ Quiet(t) /\ todo[t] = <<>>
    /\ next \in After(t)
    /\ mu' = Unlock(t)
    /\ pc' = [pc EXCEPT ![t] = next]
    /\ wg' = IF next = "done" THEN Done(t) ELSE wg
    /\ UNCHANGED <<quit, started, stopped, confReady, epochReady, todo, inCall,
                   nurseryVars>>

\* The notifier sends a block epoch or closes the stream: the incubator's
\* receive is ready.  What the stream holds matters when the incubator selects.
BlockEpoch ==
    /\ ~Panicked
    /\ pc["incubator"] = "select"
    /\ epochReady = "none"
    /\ epochReady' = "ready"
    /\ UNCHANGED <<pc, mu, quit, started, stopped, wg, confReady, todo, inCall,
                   nurseryVars>>

\* The notifier sends the confirmation a reactor waits for, or closes its
\* channel: the reactor's receive is ready.
Confirmation(r) ==
    /\ ~Panicked
    /\ pc[r] = "select"
    /\ confReady[r] = "none"
    /\ confReady' = [confReady EXCEPT ![r] = "ready"]
    /\ UNCHANGED <<pc, mu, quit, started, stopped, wg, epochReady, todo, inCall,
                   nurseryVars>>

\* incubator: case epoch, ok := <-newBlockChan.Epochs; it returns if the
\* stream was closed (!ok) and goes on to graduateClass otherwise.
TakeEpoch(ok) ==
    /\ ~Panicked
    /\ pc["incubator"] = "select"
    /\ epochReady = "ready"
    /\ pc' = [pc EXCEPT !["incubator"] = IF ok THEN "lock" ELSE "done"]
    /\ wg' = IF ok THEN wg ELSE Done("incubator")
    /\ epochReady' = IF ok THEN "none" ELSE "closed"
    /\ UNCHANGED <<mu, quit, started, stopped, confReady, todo, inCall,
                   nurseryVars>>

\* a reactor: case txConfirmation, ok := <-confChan.Confirmed; it returns if
\* the channel was closed (!ok).
TakeConfirmation(r, ok) ==
    /\ ~Panicked
    /\ r \in Reactors /\ pc[r] = "select"
    /\ confReady[r] = "ready"
    /\ pc' = [pc EXCEPT ![r] = IF ok THEN "lock" ELSE "done"]
    /\ wg' = IF ok THEN wg ELSE Done(r)
    /\ confReady' = [confReady EXCEPT ![r] = "taken"]
    /\ UNCHANGED <<mu, quit, started, stopped, epochReady, todo, inCall,
                   nurseryVars>>

\* the incubator or a reactor: case <-u.quit; the task returns and its
\* subscription is dropped.
TakeQuit(t) ==
    /\ ~Panicked
    /\ t \in Spawned /\ pc[t] = "select"
    /\ quit = "closed"
    /\ pc' = [pc EXCEPT ![t] = "done"]
    /\ wg' = Done(t)
    /\ confReady' = [r \in Reactors |-> IF r = t THEN "taken" ELSE confReady[r]]
    /\ epochReady' = IF t = "incubator" THEN "closed" ELSE epochReady
    /\ UNCHANGED <<mu, quit, started, stopped, todo, inCall, nurseryVars>>

NextSync ==
    \/ \E fail \in BOOLEAN : StartCall(fail)
    \/ \E fail \in BOOLEAN : StartFlushed(fail)
    \/ \E spawn, fail \in BOOLEAN : StartReloadPreschool(spawn, fail)
    \/ \E way \in {"fail", "skip", "replay"} : StartReloadClasses(way)
    \/ \E fail \in BOOLEAN : StartRegister(fail)
    \/ \E t \in Tasks : CloseQuit(t)
    \/ \E t \in StopCallers : StopCall(t)
    \/ \E t \in StopCallers : StopWait(t)
    \/ IngressCall
    \/ \E t \in Tasks : Lock(t)
    \/ \E t \in Tasks : StoreCall(t)
    \/ \E t \in Tasks : StoreReturn(t)
    \/ \E t \in Tasks, r \in Reactors : Spawn(t, r)
    \/ \E t \in Tasks, next \in {"lock", "close", "register", "select", "done"} :
          Leave(t, next)
    \/ BlockEpoch
    \/ \E r \in Reactors : Confirmation(r)
    \/ \E ok \in BOOLEAN : TakeEpoch(ok)
    \/ \E r \in Reactors, ok \in BOOLEAN : TakeConfirmation(r, ok)
    \/ \E t \in Spawned : TakeQuit(t)

SpecSync == Init /\ [][NextSync]_vars

\* ------------------------------------------------------------------ claims
\* C1: for every height at most one sweep txid is ever passed to
\* PublishTransaction, whatever the restarts, the repeated epochs and the
\* failures in between.
C1_SingleTxidPerHeight ==
    \A h \in Heights : \A p, q \in bcast : (p[1] = h /\ q[1] = h) => p[2] = q[2]

\* A restart replays a height whose sweep was published, and mined, before the
\* restart: the sweep is published once more.
C1_Witness ==
    /\ phase = "replay"
    /\ \E r \in reactors :
          /\ r.k = "graduation"
          /\ <<r.h, r.id>> \in bcast
          /\ sweepConf[r.id] # 0 /\ sweepConf[r.id] <= replayBest

\* C2: the sweep of a height is passed to PublishTransaction only once
\* FinalizeKinder has persisted it for that height; a call in which the sweep
\* builder or FinalizeKinder fails publishes nothing.
C2_CommitBeforeBroadcast ==
    [][\A p \in bcast' \ bcast :
          /\ p[1] \in finalized'
          /\ fstx'[p[1]] # NoTx
          /\ fstx'[p[1]].id = p[2]]_vars

\* A persisted sweep has been handed to the network.
C2_Witness ==
    \E p \in bcast :
        /\ fstx[p[1]] # NoTx /\ fstx[p[1]].id = p[2]
        /\ p[2] \in mempool.sweeps
        /\ lfh >= p[1]

\* C3: once FinalizeKinder(H, tx) has succeeded, FSTx(H) stays tx until
\* PurgeHeight(H), and graduateClass never enters the finalizing block (sweep
\* builder, FinalizeKinder) for a height at or below the last finalized one.
C3_PinnedFinalizedTx ==
    [][/\ \A h \in Heights :
             fstx[h] # NoTx =>
                \/ fstx'[h] = fstx[h]
                \/ fstx'[h] = NoTx /\ lph' = h /\ \E p \in purgeLog' : p[1] = h
       /\ refinal' = {}]_vars

\* After a restart the replay takes the sweep of a height from the store: no
\* transaction was built since, and the stored one is with a new reactor.
C3_Witness ==
    /\ crashes >= 1
    /\ phase = "replay"
    /\ \E h \in Heights :
          /\ fstx[h] # NoTx
          /\ nextTxid = fstx[h].id + 1
          /\ sweepConf[fstx[h].id] # 0 /\ sweepConf[fstx[h].id] <= replayBest
          /\ \E r \in reactors : r.k = "graduation" /\ r.h = h /\ r.id = fstx[h].id

\* C4 as stated: whenever MarkChanFullyClosed(cp) is called, every output
\* ever incubated under cp is in GRAD at that moment.
C4_AllInGradAtCall ==
    \A m \in markLog : m.immature = {} /\ m.gone = {}

\* C4, amended: MarkChanFullyClosed(cp) is called only when every output ever
\* incubated under cp is in GRAD or was purged after reaching GRAD, none being
\* in CRIB, PSCL or KNDR; and a graduation that leaves no output of cp short
\* of GRAD, with no call failing, does make the call.
C4_AllGraduatedAtCall ==
    /\ [](\A m \in markLog : m.immature = {} /\ m.gone \subseteq everGrad)
    /\ [][\A o \in kndr :
             (/\ o \notin kndr'
              /\ faults' = faults
              /\ \A x \in crib' \cup pscl' \cup kndr' :
                    OriginChanPoint(x) # OriginChanPoint(o))
             => /\ \E m \in markLog' : m.cp = OriginChanPoint(o)
                /\ OriginChanPoint(o) \in closedChans']_vars

\* A channel is marked fully closed with one output in GRAD and another
\* already purged.
C4_Witness ==
    \E m \in markLog : m.inGrad # {} /\ m.gone # {} /\ m.cp \in closedChans

\* C5: with collaborators that never fail, no crash and every height
\* delivered once, an incubated output ends in GRAD and its channel is marked
\* fully closed.  Stated on the states in which nothing is pending: no
\* reactor, no unmined transaction, no output waiting for a later height.
C5_EventualGraduation ==
    (/\ phase = "running"
     /\ lastEpoch = tip
     /\ reactors = {}
     /\ pscl = {}
     /\ \A i \in mempool.sweeps : sweepConf[i] # 0
     /\ \A b \in mempool.timeouts : timeoutConf[b] # 0
     /\ \A o \in crib : Expiry(o) <= lastEpoch
     /\ \A o \in kndr : confHeight[o] + BlocksToMaturity(o) <= lastEpoch)
    => \A o \in everInc : o \in everGrad /\ OriginChanPoint(o) \in closedChans

\* C6: the four states partition the outputs the store knows: no output is in
\* two of them.
C6_StatePartition ==
    /\ crib \cap pscl = {} /\ crib \cap kndr = {} /\ crib \cap grad = {}
    /\ pscl \cap kndr = {} /\ pscl \cap grad = {}
    /\ kndr \cap grad = {}

\* Outputs of one channel are in different states.
C6_Witness ==
    \E a \in grad, b \in kndr \cup crib : OriginChanPoint(a) = OriginChanPoint(b)

\* C7: an output enters CRIB or PSCL only by incubation, KNDR only from CRIB
\* on the confirmation of its timeout txn or from PSCL on the confirmation of
\* the commitment txn, GRAD only from KNDR on the confirmation of the sweep of
\* its class; it leaves a state only for the next one, and GRAD only by being
\* destroyed.
C7_AllowedTransitions ==
    [][\A o \in Outputs :
          LET c == OriginChanPoint(o)
              known == o \in crib \cup pscl \cup kndr \cup grad
          IN  /\ o \in crib' \ crib => ~known /\ c \notin incubated
              /\ o \in pscl' \ pscl => ~known /\ c \notin incubated
              /\ o \in kndr' \ kndr =>
                    \/ /\ o \in crib
                       /\ timeoutConf[o] # 0
                       /\ tip >= timeoutConf[o] + ConfDepth - 1
                       /\ confHeight'[o] = timeoutConf[o]
                    \/ /\ o \in pscl
                       /\ commitConf[c] # 0
                       /\ tip >= commitConf[c] + ConfDepth - 1
                       /\ confHeight'[o] = commitConf[c]
              /\ o \in grad' \ grad =>
                    /\ o \in kndr
                    /\ \E p \in bcast :
                          /\ p[1] = confHeight[o] + BlocksToMaturity(o)
                          /\ sweepConf[p[2]] # 0
                          /\ tip >= sweepConf[p[2]] + ConfDepth - 1
              /\ o \in crib \ crib' => o \in kndr'
              /\ o \in pscl \ pscl' => o \in kndr'
              /\ o \in kndr \ kndr' =>
                    o \in grad' \/ (o \in everGrad' /\ c \notin chanIndex')
              /\ o \in grad \ grad' => o \notin crib' \cup pscl' \cup kndr']_vars

\* A baby went from CRIB through KNDR to GRAD, a kid from PSCL.
C7_Witness ==
    \E a, b \in everGrad : a[2] = 0 /\ b[2] >= 1

\* C8: the last finalized height never decreases: graduateClass enters the
\* finalizing block only for a height above it, whatever the order and the
\* repetition of the heights it is called for.
C8_MonotoneLFH ==
    [][lfh' >= lfh /\ refinal' = {}]_vars

\* graduateClass ran for a height below the last finalized one.
C8_Witness ==
    /\ crashes >= 1
    /\ currentHeight >= 1
    /\ currentHeight < lfh

\* C9: PurgeHeight(H) is called only with H <= current height - PruningDepth,
\* and not at all while the current height is at most PruningDepth.
C9_PruneSafety ==
    \A p \in purgeLog : p[2] > PruningDepth /\ p[1] <= p[2] - PruningDepth

\* A height was purged.
C9_Witness ==
    \E p \in purgeLog : p[1] >= 1 /\ lph = p[1] /\ fstx[p[1]] = NoTx

\* C10 as stated: PurgeHeight is never called for a height
\* H >= current height - PruningDepth.
C10_StrictlyBelowFloor ==
    \A p \in purgeLog : ~(p[1] >= p[2] - PruningDepth)

\* C10, amended: PurgeHeight is never called for a height
\* H > current height - PruningDepth: the height it is called for is exactly
\* current height - PruningDepth, and what the store holds above it stays.
C10_AtFloor ==
    /\ [](\A p \in purgeLog : p[1] = p[2] - PruningDepth /\ p[1] >= 1)
    /\ [][\A h \in Heights :
             h > currentHeight' - PruningDepth =>
                /\ fstx[h] # NoTx => fstx'[h] = fstx[h]
                /\ \A o \in grad :
                      (confHeight[o] + BlocksToMaturity(o) = h /\ o \notin grad')
                      => OriginChanPoint(o) \notin chanIndex']_vars

\* A height was purged while the sweep of the current height stays.
C10_Witness ==
    \E p \in purgeLog :
        /\ p[1] = p[2] - PruningDepth
        /\ lph = p[1]
        /\ fstx[p[2]] # NoTx

\* C11: the record of an output leaves the store only from GRAD through
\* PurgeHeight of its height, called at current height - PruningDepth, or
\* through RemoveChannel of a channel marked fully closed whose outputs have
\* all reached GRAD; an output in CRIB, PSCL or KNDR is never deleted.
C11_DestroyedOnlyAfterGraduation ==
    [][\A o \in crib \cup pscl \cup kndr \cup grad :
          o \notin crib' \cup pscl' \cup kndr' \cup grad' =>
             \/ /\ o \in grad
                /\ lph' = confHeight[o] + BlocksToMaturity(o)
                /\ lph' = currentHeight' - PruningDepth
                /\ \E p \in purgeLog' : p[1] = lph'
             \/ /\ OriginChanPoint(o) \notin chanIndex'
                /\ OriginChanPoint(o) \in closedChans'
                /\ \A x \in crib \cup pscl \cup kndr \cup grad :
                      OriginChanPoint(x) = OriginChanPoint(o) => x \in everGrad']_vars

\* A graduated output was purged while its channel is still incubating.
C11_Witness ==
    \E o \in everGrad :
        /\ o \notin crib \cup pscl \cup kndr \cup grad
        /\ OriginChanPoint(o) \in chanIndex
        /\ \E x \in crib \cup kndr : OriginChanPoint(x) = OriginChanPoint(o)

\* C12: replay equivalence.  With the nursery running, its last epoch that of
\* height k and the chain at height n, the store is the same after the
\* incubator has taken the epochs of k+1..n as after a shutdown at k and a
\* restart at n (no confirmation is delivered meanwhile, in either run).
C12_ReplayEquivalence ==
    phase = "running" =>
        StoreContents(StoreAfterEpochs(State, lastEpoch, tip))
            = StoreContents(StoreAfterRestart(State, tip))

C14_NoBlockMissed ==
    [][/\ (phase = "replay" /\ phase' = "running") => lastEpoch' = replayBest
       /\ (phase = "down" /\ phase' = "running") => lastEpoch' = lph]_vars

\* C15: when a KNDR kid with an unrecognised witness type is scheduled at a
\* height together with recognised kids, graduateClass does not abort and
\* builds the sweep of that height from the recognised kids only, and the
\* skipped kid stays in KNDR, also after that sweep has confirmed.
C15_UnknownWitnessSkipped ==
    /\ \A h \in Heights :
          LET kgtn == FetchClass(State, h).kgtn
              rec == {o \in kgtn : Recognised(State, o)}
              res == graduateClass(State, h, Ok)
          IN  (h > lfh /\ rec # {} /\ rec # kgtn) =>
                  ~res.err /\ res.s.fstx[h].ins = rec
    /\ \A h \in Heights : \A o \in fstx[h].ins : Recognised(State, o)
    /\ \A o \in everInc : ~Recognised(State, o) => o \in kndr

\* C16: a kid confirmed at height C with blocks-to-maturity M is an input of
\* the sweep finalized for height C+M and of no other sweep; that sweep has
\* one input per recognised kid scheduled at C+M, each with sequence equal to
\* the kid's blocks-to-maturity, and exactly one output.
C16_SweepAtMaturity ==
    /\ \A o \in kndr \cup grad :
          LET h == MaturityHeight(State, o)
          IN  (h \in finalized /\ Recognised(State, o)) => o \in fstx[h].ins
    /\ \A h \in Heights : \A o \in fstx[h].ins :
          /\ o \in kndr \cup grad => MaturityHeight(State, o) = h
          /\ fstx[h].seq[o] = BlocksToMaturity(o)
          /\ \A g \in Heights \ {h} : o \notin fstx[g].ins
    /\ \A h \in Heights : fstx[h] # NoTx => fstx[h].outs = 1

\* C17: when the construction of the sweep failed at height H, so that H was
\* left unfinalized with its kids in KNDR, the graduateClass call of the next
\* block epoch builds, finalizes and broadcasts a sweep spending those kids.
C17_SweepFailureRetried ==
    [][\A o \in kndr :
          (/\ phase = "running"
           /\ MaturityHeight(State, o) = lastEpoch
           /\ lastEpoch \notin finalized
           /\ lastEpoch' = lastEpoch + 1) =>
              /\ lastEpoch \in finalized'
              /\ o \in fstx'[lastEpoch].ins
              /\ \E b \in bcast' : b[1] = lastEpoch]_vars

\* C18: when the broadcast of the finalized sweep of height H failed with a
\* hard error, so that the sweep is stored but neither published nor watched,
\* the processing of the next block epoch publishes it and registers its
\* confirmation watcher.
C18_HardFailureRetried ==
    [][\A h \in Heights :
          (/\ phase = "running"
           /\ h = lastEpoch
           /\ fstx[h] # NoTx
           /\ fstx[h].id \notin mempool.sweeps
           /\ ~\E r \in reactors : r.k = "graduation" /\ r.h = h
           /\ lastEpoch' = lastEpoch + 1) =>
              /\ fstx[h].id \in mempool'.sweeps
              /\ \E r \in reactors' : r.k = "graduation" /\ r.h = h]_vars

C20_IncubatorSurvivesErrors ==
    [][/\ (phase = "running" /\ faults' # faults /\ crashes' = crashes) =>
             phase' = "running"
       /\ (phase = "running" /\ phase' # "running") =>
             \/ phase' = "stopped" /\ reactors' = {}
             \/ phase' = "idle" /\ faults' = faults /\ lastEpoch' = lastEpoch
             \/ phase' = "down" /\ crashes' = crashes + 1]_vars

\* The sweep of a height failed to publish, graduateClass returned the error,
\* and the incubator has since processed a later epoch.
C20_Witness ==
    /\ phase = "running" /\ crashes = 0 /\ faults = 1
    /\ lastEpoch \in finalized
    /\ \E b \in bcast :
          /\ b[1] < lastEpoch
          /\ b[2] \notin mempool.sweeps
          /\ ~\E r \in reactors : r.k = "graduation" /\ r.id = b[2]

C26_IngressOfSummary ==
    \A sum \in Summaries :
      LET r == IncubateBody(State, sum, CallOk)
          kid == <<sum.chanPoint, 0>>
          wantKid == sum.selfDesc /\ sum.selfAmt > 0
          wantBabies == {<<sum.chanPoint, i>> : i \in {j \in 1..MaxHtlcs : sum.htlcAmts[j] > 0}}
      IN  sum.chanPoint \notin incubated =>
            /\ r.s.pscl \ pscl = (IF wantKid THEN {kid} ELSE {})
            /\ r.s.crib \ crib = wantBabies
            /\ r.s.reactors \ reactors =
                  (IF wantKid THEN {PromotionReactor(kid)} ELSE {})
            /\ IF ~wantKid /\ wantBabies = {}
               THEN /\ sum.chanPoint \in r.s.closedChans
                    /\ StoreContents(r.s) = StoreContents(State)
                    /\ r.s.reactors = reactors
               ELSE r.s.closedChans = closedChans

\* A summary with nothing to incubate has been handed over: the channel is
\* fully closed and the store knows nothing of it.
C26_Witness ==
    \E c \in incubated :
       /\ c \in closedChans /\ c \notin chanIndex
       /\ \A o \in everInc : OriginChanPoint(o) # c

\* C27: closeAndRemoveIfMature returns success and changes neither the store
\* nor the channel database when IsMatureChannel reports not-found or false;
\* when it reports true it calls MarkChanFullyClosed and then RemoveChannel,
\* and RemoveChannel is never called for a channel that was not first marked
\* fully closed with success.  Stated of a call made in any reachable state,
\* for any channel and any outcome of the three collaborator calls.
C27_CloseAndRemoveOutcomes ==
    \A cp \in Chans :
      \A f \in {x \in CallFaults : x.kind = "ok" \/ (x.kind \in CloseFaults /\ x.cp = cp)} :
        LET r == closeAndRemoveIfMature(State, cp, f)
            isMature == IsMatureChannel(State, cp)
            removed == cp \in chanIndex /\ cp \notin r.s.chanIndex
        IN  /\ (isMature \in {"notfound", "immature"} /\ f.kind # "matureErr") =>
                  /\ ~r.err
                  /\ StoreContents(r.s) = StoreContents(State)
                  /\ r.s.closedChans = closedChans
                  /\ r.s.markLog = markLog
            /\ (isMature = "mature" /\ f.kind = "ok") =>
                  /\ ~r.err
                  /\ MarkCall(State, cp) \in r.s.markLog
                  /\ cp \in r.s.closedChans
                  /\ removed
            /\ removed =>
                  /\ isMature = "mature"
                  /\ f.kind # "markErr"
                  /\ MarkCall(State, cp) \in r.s.markLog
                  /\ cp \in r.s.closedChans
            /\ (isMature = "mature" /\ f.kind = "markErr") =>
                  r.err /\ StoreContents(r.s) = StoreContents(State)

\* A channel whose outputs had all graduated was marked fully closed and
\* then removed from the store.
C27_Witness ==
    \E c \in closedChans :
       /\ c \notin chanIndex
       /\ \E m \in markLog : m.cp = c /\ m.inGrad # {} /\ m.immature = {} /\ m.gone = {}

\* C28: for any channel point NurseryReport returns a maturity snapshot or a
\* not-found error, never no report with no error; a snapshot of a kid with
\* confirmation height c # 0 has maturity height c + blocks-to-maturity, and
\* with c = 0 both heights are 0.
C28_ReportOrNotFound ==
    \A cp \in Chans :
       LET r == NurseryReport(State, cp)
       IN  /\ r.report = NoReport => r.err
           /\ r.report # NoReport =>
                 /\ ~r.err
                 /\ r.report.chanPoint = cp
                 /\ IF r.report.confirmationHeight # 0
                    THEN r.report.maturityHeight =
                            r.report.confirmationHeight + r.report.maturityRequirement
                    ELSE r.report.maturityHeight = 0

\* C29: an output is moved from KNDR to GRAD (GraduateKinder, recorded in
\* everGrad) only if it is an input of the sweep txn finalized for its height,
\* whose confirmation triggered the graduation.
C29_GraduationImpliesSpent ==
    [][\A o \in kndr :
          (o \in everGrad' /\ MaturityHeight(State, o) \in Heights) =>
              (fstx[MaturityHeight(State, o)] # NoTx =>
                   o \in fstx[MaturityHeight(State, o)].ins)]_vars

\* C30: a kid that reaches KNDR when its maturity height has already been
\* finalized (maturity height <= last finalized height) is eventually an
\* input of a finalized sweep txn.
C30_LatePromotionSwept ==
    \A o \in Outputs :
       (o \in kndr /\ MaturityHeight(State, o) <= lfh)
           ~> (\E h \in Heights : o \in fstx[h].ins)

\* C21: every store-mutating call is made by a task that holds the mutex, and
\* no two tasks are inside store-mutating calls at the same time.
C21_MutexSerialisation ==
    /\ \A t \in Tasks : ~Quiet(t) => mu = t
    /\ \A t1, t2 \in Tasks : (~Quiet(t1) /\ ~Quiet(t2)) => t1 = t2

\* A step of the task holding the mutex.
HolderStep ==
    \E h \in Tasks :
       /\ mu = h
       /\ \/ StoreCall(h) \/ StoreReturn(h)
          \/ \E r \in Reactors : Spawn(h, r)
          \/ \E next \in After(h) : Leave(h, next)

\* C22: a task that goes for the mutex does not hold it; a task holds the
\* mutex only inside its locked part, so every path out of it, error returns
\* included, has released it; and whenever a task waits for the mutex, either
\* it can take it or the holder can take a step.
C22_NoNestedNoDeadlock ==
    /\ \A t \in Tasks : pc[t] = "lock" => mu # t
    /\ \A t \in Tasks : mu = t => pc[t] = "locked"
    /\ \A t \in Tasks :
          (pc[t] = "lock" /\ ~Panicked) => ENABLED (Lock(t) \/ HolderStep)

\* One task waits for the mutex while another, holding it, is inside a store
\* call on a path that returns early with an error (GraduateKinder the only
\* call of waitForGraduation).
C22_Witness ==
    \E t1, t2 \in Tasks :
       /\ t1 # t2 /\ pc[t1] = "lock" /\ mu = t2
       /\ t2 = "graduation" /\ inCall[t2] = "GraduateKinder" /\ todo[t2] = <<>>

\* The live goroutines the counter accounts for.
Live == {t \in Spawned : pc[t] \notin {"unborn", "done"}}

\* C23: whatever the Stop calls, a Stop that closes the shutdown signal finds
\* it open (it is the only one to close it), at most one Stop call gets past
\* the compare-and-swap, and the counter Stop waits on is the number of
\* goroutines that have not finished, so that a Stop that has waited returns
\* with none left.
C23_StopIdempotentAndDrains ==
    /\ \A t \in StopCallers : pc[t] # "panic"
    /\ Cardinality({t \in StopCallers : pc[t] \in {"close", "wait"}}) <= 1
    /\ wg = Cardinality(Live)

\* C24: a reactor or the incubator that is selecting when the shutdown signal
\* has fired returns: its next step never takes it on towards the mutex.
C24_PromptReturnOnShutdown ==
    [][\A t \in Spawned :
          (quit = "closed" /\ pc[t] = "select") => pc'[t] \in {"select", "done"}]_vars

\* C34: over any calls of Start and Stop, no close(u.quit) is executed on the
\* signal once it is closed (such a close panics).
C34_SignalClosedAtMostOnce ==
    \A t \in Tasks : pc[t] # "panic"

\* C33: an IncubateOutputs call that returns an error of Store.Incubate or of
\* the registration of the commitment watcher leaves none of the summary's
\* outputs in the store and spawns no reactor; and a kid the call puts in PSCL
\* has a waitForPromotion reactor.  Stated of a call made in any reachable
\* state of the running nursery with any summary of a channel not yet handed
\* over.
C33_NoTraceOnError ==
    \A sum \in Summaries :
      \A f \in {x \in CallFaults : x.kind \in {"ok", "storeErr", "regErr"}} :
        LET r == IncubateBody(State, sum, f)
            outs == CommOutput(sum) \cup HtlcOutputs(sum)
        IN  (phase = "running" /\ sum.chanPoint \notin incubated) =>
              /\ (r.hit /\ f.kind \in {"storeErr", "regErr"}) =>
                    /\ outs \cap (r.s.pscl \cup r.s.crib) = {}
                    /\ r.s.reactors = reactors
              /\ \A kid \in r.s.pscl \ pscl : PromotionReactor(kid) \in r.s.reactors

\* Every output that needs a confirmation reactor has one: the PSCL kids, the
\* CRIB babies whose expiry height the chain has reached, the KNDR kids that
\* are inputs of a stored sweep that was broadcast and is not yet mined.
WatchersRestored ==
    /\ \A o \in pscl : PromotionReactor(o) \in reactors
    /\ \A o \in crib : Expiry(o) <= tip => EnrollmentReactor(o) \in reactors
    /\ \A o \in kndr : \A h \in Heights :
          (o \in fstx[h].ins /\ fstx[h].id \in mempool.sweeps
             /\ sweepConf[fstx[h].id] = 0) =>
              \E r \in reactors : r.k = "graduation" /\ o \in r.kids

\* C31: the step by which Start returns with success (from a nursery that is
\* down, or from the last round of the replay) leaves a reactor for every
\* output that needs one, whatever the last purged height.
C31_WatchersRestored ==
    [][(phase \in {"down", "replay"} /\ phase' = "running") => WatchersRestored']_vars

\* The output a reactor is to move is in the state its transition moves it
\* from: PSCL for PreschoolToKinder, CRIB for CribToKinder, KNDR at the class
\* height for every kid of GraduateKinder.
InSource(r) ==
    IF r.k = "promotion" THEN r.o \in pscl
    ELSE IF r.k = "enrollment" THEN r.o \in crib
    ELSE \A kid \in r.kids : kid \in kndr /\ MaturityHeight(State, kid) = r.h

\* C32: a waiting reactor whose confirmation has been delivered, and which
\* therefore calls its transition next, finds its output in the source state
\* of that transition; so no two reactors apply the same transition to the
\* same output, whatever epochs are repeated.
C32_TransitionsFromSourceState ==
    \A r \in reactors : (Alive /\ Delivered(r)) => InSource(r)

====
